---- MODULE Spec2Model ----
(***************************************************************************)
(* NetPulse (net_pulse_react_single_file.jsx): the measurement engine of   *)
(* the component -- measurePing, measureDownloadParallel (makeStream and   *)
(* the sampler), measureUpload, runNetPulse and abortTest -- as a state    *)
(* machine over the browser's event loop.  One action is one task of the   *)
(* event loop: a click, a settled network promise or a timer callback,     *)
(* together with every microtask continuation it triggers.                 *)
(*                                                                         *)
(* Units.  Clock values (performance.now()) are whole milliseconds.  Round *)
(* trip times of the prober are tenths of a millisecond.  A throughput     *)
(* that the code holds as a float is held as the exact pair                *)
(* <<bytes, milliseconds>>; a value after toFixed(2) is held in hundredths *)
(* of a Mbps.                                                              *)
(***************************************************************************)
EXTENDS Integers, Sequences, FiniteSets, TLC

VARIABLES
    running,            \* useState(false), line 40
    streams,            \* useState(DEFAULT_STREAMS), line 41
    sizePerStream,      \* MB per stream, line 42
    uploadSize,         \* line 43; the MB are held in KiB (1 MB = 1024)
    pingMs,             \* line 46
    downloadMbps,       \* line 47
    downloadPeakMbps,   \* line 48
    uploadMbps,         \* line 49
    dlChartData,        \* line 52
    log,                \* line 53
    controllerRef,      \* useRef(null), line 56: NULL or the id of a controller
    aborted,            \* the controllers whose signal.aborted is true
    now,                \* performance.now()
    run,                \* the locals of each invocation of runNetPulse
    nRuns,              \* invocations of runNetPulse so far
    hist,               \* history of each session: its cancel request, its terminal events
    env,                \* the inputs the environment may deliver (fixed at Init)
    budget              \* tasks the exploration may still take, NULL for no limit

vars == <<running, streams, sizePerStream, uploadSize, pingMs, downloadMbps,
          downloadPeakMbps, uploadMbps, dlChartData, log, controllerRef,
          aborted, now, run, nRuns, hist, env, budget>>

----------------------------------------------------------------------------
(* Bounds of the exploration *)

MaxRuns == 2
MaxTasks == 13
MaxClockSteps == 3
MaxStreams == 2
MaxSamplerPeriods == 1
MaxChartTicks == 62
MaxTokenTasks == 14

(* Program constants *)

NULL == -1
INFINITY == -2
PING_TRIES == 5
StreamsSliderMax == 8
LOG_KEEP == 50
CHART_KEEP == 60
sampleIntervalMs == 500
MiB == 1048576
KiB == 1024
chunkSize == 131072

Runs == 1 .. MaxRuns
StreamIds == 1 .. StreamsSliderMax

Min2(a, b) == IF a <= b THEN a ELSE b

----------------------------------------------------------------------------
(* Arithmetic of the reported figures *)

\* a/b <= c/d for a, c >= 0 and b, d > 0, by continued fractions (no products)
RECURSIVE RatLeq(_, _, _, _)
RatLeq(a, b, c, d) ==
    IF a \div b # c \div d THEN a \div b < c \div d
    ELSE IF a % b = 0 THEN TRUE
    ELSE IF c % d = 0 THEN FALSE
    ELSE RatLeq(d, c % d, b, a % b)

\* Number(((bytes * 8 / (ms / 1000)) / (1024 * 1024)).toFixed(2)), in hundredths:
\* bytes * 3125 / (ms * 4096) rounded half up, for ms > 0
Mbps100(bytes, ms) ==
    LET q == bytes \div 4096
        r == bytes % 4096
    IN  (6250 * q + ms + (6250 * r) \div 4096) \div (2 * ms)

\* Math.round of a time held in tenths of a millisecond
MathRound(t10) == (t10 + 5) \div 10

----------------------------------------------------------------------------
(* Helpers of the component *)

\* one line of the activity log, `${new Date().toLocaleTimeString()} - ${msg}`:
\* the second of the clock, and the message by its kind and its arguments
Entry(kind, a, b) == [time |-> now \div 1000, kind |-> kind, a |-> a, b |-> b]

\* pushLog: [msg, ...l].slice(0, 50)
pushLog(l, e) == SubSeq(<<e>> \o l, 1, Min2(LOG_KEEP, Len(l) + 1))

\* results.sort((a, b) => a - b)
RECURSIVE Insert(_, _)
Insert(s, x) ==
    IF s = <<>> THEN <<x>>
    ELSE IF x <= Head(s) THEN <<x>> \o s
    ELSE <<Head(s)>> \o Insert(Tail(s), x)

RECURSIVE Sort(_)
Sort(s) == IF s = <<>> THEN <<>> ELSE Insert(Sort(Tail(s)), Head(s))

\* PingReturn without line 80: an empty result set yields 0
PingReturnNeverAbsent(results) ==
    IF Len(results) = 0 THEN 0
    ELSE MathRound(Sort(results)[(Len(results) \div 2) + 1])

\* lines 80-83: null, or Math.round(results[Math.floor(results.length / 2)])
PingReturn(results) ==
    IF Len(results) = 0 THEN NULL
    ELSE MathRound(Sort(results)[(Len(results) \div 2) + 1])

RECURSIVE SumBytes(_)
SumBytes(ss) == IF ss = <<>> THEN 0 ELSE Head(ss).bytes + SumBytes(Tail(ss))

\* EarliestStart without the filter: Math.min takes a null start as 0
RECURSIVE EarliestStartUnfiltered(_)
EarliestStartUnfiltered(ss) ==
    IF ss = <<>> THEN NULL
    ELSE LET rest == EarliestStartUnfiltered(Tail(ss))
             s == IF Head(ss).start = NULL THEN 0 ELSE Head(ss).start
         IN  IF rest = NULL THEN s ELSE Min2(s, rest)

\* Math.min(...streamStates.filter(s => s.start).map(s => s.start)); NULL stands
\* for the Infinity of an empty list
RECURSIVE EarliestStart(_)
EarliestStart(ss) ==
    IF ss = <<>> THEN NULL
    ELSE LET rest == EarliestStart(Tail(ss))
             s == Head(ss).start
         IN  IF s = NULL \/ s = 0 THEN rest
             ELSE IF rest = NULL THEN s
             ELSE Min2(s, rest)

\* Math.max(...samples), samples being pairs <<deltaBytes, deltaMs>>
RECURSIVE MaxSample(_)
MaxSample(ss) ==
    IF Len(ss) = 1 THEN Head(ss)
    ELSE LET m == MaxSample(Tail(ss))
             h == Head(ss)
         IN  IF RatLeq(m[1], m[2], h[1], h[2]) THEN h ELSE m

\* the null that measureDownloadParallel returns at line 169
NoResult == [avgMbps |-> NULL, peakMbps |-> NULL, totalBytes |-> NULL]

\* lines 166-173: the value measureDownloadParallel returns at clock t
DownloadReturn(ss, samples, t) ==
    LET totalBytes == SumBytes(ss)
        earliestStart == EarliestStart(ss)
        elapsedMs == IF earliestStart = NULL THEN NULL ELSE t - earliestStart
    IN  IF earliestStart = NULL \/ elapsedMs <= 0 THEN NoResult
        ELSE LET peak == IF Len(samples) > 0 THEN MaxSample(samples)
                         ELSE <<totalBytes, elapsedMs>>
             IN  [avgMbps |-> Mbps100(totalBytes, elapsedMs),
                  peakMbps |-> Mbps100(peak[1], peak[2]),
                  totalBytes |-> totalBytes]

\* lines 183-191: the bytes of the blob that is built and posted, pieces
\* copies of the chunk, for a size given in KiB
BlobBytes(sizeKiB) ==
    LET size == sizeKiB * KiB
        pieces == (size + chunkSize - 1) \div chunkSize
    IN  pieces * chunkSize

\* lines 197-201: Number(mbps.toFixed(2)) of the upload, from bits = size * 8
UploadReturn(sizeKiB, elapsedMs) ==
    IF elapsedMs <= 0 THEN INFINITY ELSE Mbps100(sizeKiB * KiB, elapsedMs)

----------------------------------------------------------------------------
(* The state of the component as one value, so that the synchronous steps   *)
(* and microtask continuations of one task compose                          *)

World ==
    [running |-> running, pingMs |-> pingMs, downloadMbps |-> downloadMbps,
     downloadPeakMbps |-> downloadPeakMbps, uploadMbps |-> uploadMbps,
     dlChartData |-> dlChartData, log |-> log, controllerRef |-> controllerRef,
     aborted |-> aborted, run |-> run]

Commit(w) ==
    /\ running' = w.running
    /\ pingMs' = w.pingMs
    /\ downloadMbps' = w.downloadMbps
    /\ downloadPeakMbps' = w.downloadPeakMbps
    /\ uploadMbps' = w.uploadMbps
    /\ dlChartData' = w.dlChartData
    /\ log' = w.log
    /\ controllerRef' = w.controllerRef
    /\ aborted' = w.aborted
    /\ run' = w.run

\* the locals of an invocation of runNetPulse that has not begun
IdleRun ==
    [pc |-> "idle", i |-> 0, results |-> <<>>, ping |-> NULL,
     streamStates |-> <<>>, st |-> <<>>, sampler |-> FALSE,
     lastSampleBytes |-> 0, lastSampleTime |-> 0, nextTick |-> 0,
     samples |-> <<>>, dlEnd |-> NULL, dlResult |-> NoResult, ulStart |-> 0,
     blob |-> NULL, ul |-> NULL, cancelFailed |-> {}]

LogW(w, kind, a, b) == [w EXCEPT !.log = pushLog(@, Entry(kind, a, b))]

\* where makeStream stands: awaiting its fetch (line 106) or a read (line 114),
\* or how it ended: "completed" (the loop was left at line 113, 115 or 122),
\* "aborted" (line 128), "errored" (line 130), "rejected" (a throw at line 106
\* or 107, outside the try)
Settled(s) == s \in {"completed", "aborted", "errored", "rejected"}

AllSettled(rec) == \A i \in 1 .. Len(rec.st) : Settled(rec.st[i])

----------------------------------------------------------------------------
(* measureUpload, lines 182-206 *)

\* lines 183-195: the payload is built and the POST is issued
StartUpload(w, r) ==
    LET w1 == LogW(w, "Preparing upload payload", uploadSize, 0)
    IN  [w1 EXCEPT !.run[r].pc = "upload",
                   !.run[r].blob = BlobBytes(uploadSize),
                   !.run[r].ulStart = now]

----------------------------------------------------------------------------
(* measureDownloadParallel, lines 92-178 *)

RECURSIVE LogStarts(_, _, _, _)
LogStarts(w, r, i, n) ==
    IF i > n THEN w
    ELSE LogStarts(LogW(w, "Starting stream", i, sizePerStream), r, i + 1, n)

\* lines 94-156: the controller, the streams and the sampler are set up
LaunchDownload(w, r) ==
    LET w1 == LogStarts(w, r, 1, streams)
    IN  [w1 EXCEPT !.controllerRef = r,
                   !.run[r].pc = "download",
                   !.run[r].streamStates =
                        [i \in 1 .. streams |-> [bytes |-> 0, start |-> NULL]],
                   !.run[r].st = [i \in 1 .. streams |-> "fetch"],
                   !.run[r].sampler = TRUE,
                   !.run[r].lastSampleBytes = 0,
                   !.run[r].lastSampleTime = now,
                   !.run[r].nextTick = now + sampleIntervalMs,
                   !.run[r].samples = <<>>]

\* lines 160-173 and 229-239: Promise.allSettled has resolved; the sampler is
\* stopped, the result is computed and published, and the upload begins
DownloadSettled(w, r) ==
    LET rec == w.run[r]
        res == DownloadReturn(rec.streamStates, rec.samples, now)
        w1 == [w EXCEPT !.run[r].sampler = FALSE, !.run[r].dlEnd = now,
                        !.run[r].dlResult = res]
        w2 == IF res # NoResult
              THEN LogW([w1 EXCEPT !.downloadMbps = res.avgMbps,
                                   !.downloadPeakMbps = res.peakMbps],
                        "Download avg", res.avgMbps, res.peakMbps)
              ELSE LogW(w1, "Download test failed", 0, 0)
    IN  StartUpload(w2, r)

\* Settle with Promise.race in the place of Promise.allSettled
SettleOnFirst(w, r) ==
    IF w.run[r].pc = "download"
       /\ \E i \in 1 .. Len(w.run[r].st) : Settled(w.run[r].st[i])
    THEN DownloadSettled(w, r)
    ELSE w

\* line 160: the continuation of Promise.allSettled after a stream settles
Settle(w, r) ==
    IF w.run[r].pc = "download" /\ AllSettled(w.run[r])
    THEN DownloadSettled(w, r)
    ELSE w

\* the top of the loop at line 113 after a read or the open: leave the loop
\* when the signal is aborted, else issue reader.read()
LoopTop(w, r, i) ==
    IF r \in w.aborted THEN [w EXCEPT !.run[r].st[i] = "completed"]
    ELSE [w EXCEPT !.run[r].st[i] = "read"]

\* AbortSignal: the pending fetch of a stream rejects (makeStream rejects, its
\* await being outside the try), a pending read rejects with AbortError, which
\* lines 125-128 catch and log
RECURSIVE UnwindFrom(_, _, _)
UnwindFrom(w, c, i) ==
    IF i > Len(w.run[c].st) THEN w
    ELSE LET s == w.run[c].st[i]
             w1 == IF s = "fetch" THEN [w EXCEPT !.run[c].st[i] = "rejected"]
                   ELSE IF s = "read"
                   THEN LogW([w EXCEPT !.run[c].st[i] = "aborted"],
                             "Stream aborted", i, 0)
                   ELSE w
         IN  UnwindFrom(w1, c, i + 1)

Unwind(w, c) == Settle(UnwindFrom(w, c, 1), c)

----------------------------------------------------------------------------
(* runNetPulse, lines 209-250, and abortTest, lines 252-256 *)

\* RunStart without line 215, setPingMs(null)
RunStartKeepsPing(w, r) ==
    LET w1 == [w EXCEPT !.running = TRUE,
                        !.dlChartData = <<>>,
                        !.downloadMbps = NULL,
                        !.downloadPeakMbps = NULL,
                        !.uploadMbps = NULL]
        w2 == LogW(w1, "NetPulse test started", 0, 0)
    IN  [w2 EXCEPT !.run[r] = [IdleRun EXCEPT !.pc = "ping"]]

\* lines 210-220: the reset block, the start line of the log, the first probe
RunStart(w, r) ==
    LET w1 == [w EXCEPT !.running = TRUE,
                        !.dlChartData = <<>>,
                        !.downloadMbps = NULL,
                        !.downloadPeakMbps = NULL,
                        !.uploadMbps = NULL,
                        !.pingMs = NULL]
        w2 == LogW(w1, "NetPulse test started", 0, 0)
    IN  [w2 EXCEPT !.run[r] = [IdleRun EXCEPT !.pc = "ping"]]

\* PingSettled with a prober that raises when no probe succeeded: the session
\* ends in its catch and finally without the later stages
PingSettledBlocking(w, r, ok, delta) ==
    LET k == w.run[r].i
        w1 == IF ok
              THEN LogW([w EXCEPT !.run[r].results = Append(@, delta)],
                        "Ping ms", k + 1, MathRound(delta))
              ELSE LogW(w, "Ping failed", k + 1, 0)
        ping == PingReturn(w1.run[r].results)
        w2 == [w1 EXCEPT !.run[r].i = k + 1]
    IN  IF k + 1 < PING_TRIES THEN w2
        ELSE IF ping = NULL
        THEN [LogW(w2, "Test error", 0, 0) EXCEPT !.running = FALSE,
                                                  !.run[r].pc = "done"]
        ELSE LaunchDownload([w2 EXCEPT !.run[r].ping = ping, !.pingMs = ping], r)

\* lines 68-84 and 220-229: one probe settles; after the last one measurePing
\* returns, the ping is published and the download is launched
PingSettled(w, r, ok, delta) ==
    LET k == w.run[r].i
        w1 == IF ok
              THEN LogW([w EXCEPT !.run[r].results = Append(@, delta)],
                        "Ping ms", k + 1, MathRound(delta))
              ELSE LogW(w, "Ping failed", k + 1, 0)
        ping == PingReturn(w1.run[r].results)
    IN  IF k + 1 < PING_TRIES
        THEN [w1 EXCEPT !.run[r].i = k + 1]
        ELSE LaunchDownload([w1 EXCEPT !.run[r].i = k + 1,
                                       !.run[r].ping = ping,
                                       !.pingMs = ping], r)

\* Finally without line 246, setRunning(false)
FinallyKeepsRunning(w, r) ==
    LET c == w.controllerRef
        w1 == [w EXCEPT !.aborted = IF c # NULL THEN @ \cup {c} ELSE @,
                        !.controllerRef = NULL,
                        !.run[r].pc = "done"]
    IN  IF c # NULL /\ c \notin w.aborted THEN Unwind(w1, c) ELSE w1

\* lines 245-249: the finally block
Finally(w, r) ==
    LET c == w.controllerRef
        w1 == [w EXCEPT !.running = FALSE,
                        !.aborted = IF c # NULL THEN @ \cup {c} ELSE @,
                        !.controllerRef = NULL,
                        !.run[r].pc = "done"]
    IN  IF c # NULL /\ c \notin w.aborted THEN Unwind(w1, c) ELSE w1

\* lines 196-205 and 240-249: the POST settles; the upload result is published,
\* the finish line is logged and the finally block runs
UploadSettled(w, r, ok) ==
    LET elapsedMs == now - w.run[r].ulStart
        ul == IF ok THEN UploadReturn(uploadSize, elapsedMs) ELSE NULL
        w1 == IF ok THEN LogW(w, "Upload completed", elapsedMs, 0)
              ELSE LogW(w, "Upload failed", 0, 0)
        w2 == [w1 EXCEPT !.uploadMbps = ul, !.run[r].ul = ul]
        w3 == LogW(w2, "NetPulse test finished", 0, 0)
    IN  Finally(w3, r)

\* lines 252-256
abortTest(w) ==
    LET c == w.controllerRef
        w1 == IF c # NULL THEN [w EXCEPT !.aborted = @ \cup {c}] ELSE w
        w2 == LogW(w1, "User aborted test", 0, 0)
        w3 == [w2 EXCEPT !.running = FALSE]
    IN  IF c # NULL /\ c \notin w.aborted THEN Unwind(w3, c) ELSE w3

\* lines 224-227: d => [...d.slice(-60), {name, mbps}]
onProgress(d, mbps) ==
    LET kept == IF Len(d) <= CHART_KEEP THEN d
                ELSE SubSeq(d, Len(d) - CHART_KEEP + 1, Len(d))
    IN  Append(kept, [name |-> now, mbps |-> mbps])

----------------------------------------------------------------------------
(* Actions: the tasks of the event loop *)

Active(r) == run[r].pc \in {"ping", "download", "upload"}

\* the probes measurePing has issued so far (line 72)
Issued(rec) == IF rec.pc = "idle" THEN 0 ELSE Min2(rec.i + 1, PING_TRIES)

NoHistory ==
    [cancelled |-> FALSE, stage |-> "none", issued |-> 0, fired |-> FALSE,
     terminals |-> 0]

Spend ==
    /\ budget # 0
    /\ budget' = IF budget > 0 THEN budget - 1 ELSE budget
    /\ UNCHANGED <<streams, sizePerStream, uploadSize, env>>

Step(w) ==
    /\ Spend
    /\ Commit(w)
    /\ UNCHANGED <<now, nRuns, hist>>

\* the Run button, enabled while running is false (lines 270-276)
ClickRun ==
    /\ ~running
    /\ nRuns < env.maxRuns
    /\ nRuns' = nRuns + 1
    /\ Spend
    /\ Commit(RunStart(World, nRuns + 1))
    /\ UNCHANGED <<now, hist>>

\* the Abort button, enabled while running is true (lines 277-283)
ClickAbort ==
    /\ running
    /\ run[nRuns].pc \in env.cancels
    /\ hist' = [hist EXCEPT ![nRuns] =
                    [cancelled |-> TRUE,
                     stage |-> run[nRuns].pc,
                     issued |-> Issued(run[nRuns]),
                     fired |-> controllerRef = nRuns /\ nRuns \notin aborted,
                     terminals |-> @.terminals + 1]]
    /\ Spend
    /\ Commit(abortTest(World))
    /\ UNCHANGED <<now, nRuns>>

\* the HEAD request of a probe resolves after delta (tenths of a ms)
PingResolve(r) ==
    /\ run[r].pc = "ping"
    /\ \E delta \in env.rtts : Step(PingSettled(World, r, TRUE, delta))

\* the HEAD request of a probe rejects
PingReject(r) ==
    /\ run[r].pc = "ping"
    /\ env.probeFail
    /\ Step(PingSettled(World, r, FALSE, 0))

\* lines 106-110: the fetch of stream i resolves with a body
FetchResolve(r, i) ==
    /\ i <= Len(run[r].st)
    /\ run[r].st[i] = "fetch"
    /\ env.fetchOk
    /\ Step(Settle(LoopTop([World EXCEPT !.run[r].streamStates[i].start = now],
                           r, i), r))

\* lines 106-107: the fetch rejects or the response has no body; makeStream
\* rejects without a log line
FetchReject(r, i) ==
    /\ i <= Len(run[r].st)
    /\ run[r].st[i] = "fetch"
    /\ env.faults
    /\ Step(Settle([World EXCEPT !.run[r].st[i] = "rejected"], r))

\* ReadChunk without the try around reader.cancel() at line 121: a throw of
\* reader.cancel() reaches the catch at line 125
ReadChunkCancelEscalates(r, i) ==
    /\ i <= Len(run[r].st)
    /\ run[r].st[i] = "read"
    /\ \E len \in env.chunkLens, ok \in env.cancelOk :
          LET w1 == [World EXCEPT !.run[r].streamStates[i].bytes = @ + len]
          IN  IF w1.run[r].streamStates[i].bytes >= sizePerStream * MiB
              THEN IF ok
                   THEN Step(Settle([w1 EXCEPT !.run[r].st[i] = "completed"], r))
                   ELSE Step(Settle(LogW([w1 EXCEPT
                                            !.run[r].st[i] = "errored",
                                            !.run[r].cancelFailed = @ \cup {i}],
                                         "Stream error", i, 0), r))
              ELSE Step(Settle(LoopTop(w1, r, i), r))

\* lines 114-123: a read resolves with a chunk of len bytes; at the target
\* reader.cancel() is called, and whether it works (ok) or throws, the loop is
\* left
ReadChunk(r, i) ==
    /\ i <= Len(run[r].st)
    /\ run[r].st[i] = "read"
    /\ \E len \in env.chunkLens, ok \in env.cancelOk :
          LET w1 == [World EXCEPT !.run[r].streamStates[i].bytes = @ + len]
          IN  IF w1.run[r].streamStates[i].bytes >= sizePerStream * MiB
              THEN Step(Settle([w1 EXCEPT
                                  !.run[r].st[i] = "completed",
                                  !.run[r].cancelFailed =
                                        IF ok THEN @ ELSE @ \cup {i}], r))
              ELSE Step(Settle(LoopTop(w1, r, i), r))

\* lines 114-115: a read resolves with done
ReadDone(r, i) ==
    /\ i <= Len(run[r].st)
    /\ run[r].st[i] = "read"
    /\ env.eof
    /\ Step(Settle([World EXCEPT !.run[r].st[i] = "completed"], r))

\* lines 125-131: a read rejects with a transport error
ReadError(r, i) ==
    /\ i <= Len(run[r].st)
    /\ run[r].st[i] = "read"
    /\ env.faults
    /\ Step(Settle(LogW([World EXCEPT !.run[r].st[i] = "errored"],
                        "Stream error", i, 0), r))

\* SamplerTick without line 149, lastSampleBytes = totalBytes
SamplerTickKeepsBase(r) ==
    /\ run[r].sampler
    /\ now >= run[r].nextTick
    /\ LET rec == run[r]
           totalBytes == SumBytes(rec.streamStates)
           deltaBytes == totalBytes - rec.lastSampleBytes
           deltaTime == now - rec.lastSampleTime
       IN  Step([World EXCEPT
                   !.run[r].lastSampleTime = now,
                   !.run[r].nextTick = @ + sampleIntervalMs,
                   !.run[r].samples = Append(@, <<deltaBytes, deltaTime>>),
                   !.dlChartData = onProgress(@, Mbps100(deltaBytes, deltaTime))])

\* lines 144-156: the setInterval callback
SamplerTick(r) ==
    /\ run[r].sampler
    /\ now >= run[r].nextTick
    /\ LET rec == run[r]
           totalBytes == SumBytes(rec.streamStates)
           deltaBytes == totalBytes - rec.lastSampleBytes
           deltaTime == now - rec.lastSampleTime
       IN  Step([World EXCEPT
                   !.run[r].lastSampleBytes = totalBytes,
                   !.run[r].lastSampleTime = now,
                   !.run[r].nextTick = @ + sampleIntervalMs,
                   !.run[r].samples = Append(@, <<deltaBytes, deltaTime>>),
                   !.dlChartData = onProgress(@, Mbps100(deltaBytes, deltaTime))])

\* lines 195-196: the POST resolves with an ok status
UploadResolve(r) ==
    /\ run[r].pc = "upload"
    /\ TRUE \in env.uploadOk
    /\ Spend
    /\ Commit(UploadSettled(World, r, TRUE))
    /\ hist' = [hist EXCEPT ![r].terminals = @ + 1]
    /\ UNCHANGED <<now, nRuns>>

\* lines 195-196 and 202-205: the POST rejects or resolves with another status
UploadFail(r) ==
    /\ run[r].pc = "upload"
    /\ FALSE \in env.uploadOk
    /\ Spend
    /\ Commit(UploadSettled(World, r, FALSE))
    /\ hist' = [hist EXCEPT ![r].terminals = @ + 1]
    /\ UNCHANGED <<now, nRuns>>

\* the clock advances while a transfer is timed (the durations of the probes
\* are inputs); a due timer callback runs before it advances further
Advance ==
    /\ \E r \in Runs : run[r].pc \in {"download", "upload"}
    /\ now + env.stepMs <= env.horizon
    /\ \A r \in Runs : run[r].sampler => now < run[r].nextTick
    /\ now' = now + env.stepMs
    /\ Spend
    /\ UNCHANGED <<running, pingMs, downloadMbps, downloadPeakMbps, uploadMbps,
                   dlChartData, log, controllerRef, aborted, run, nRuns,
                   hist>>

\* the component after its first render, under the environment env
InitComponent ==
    /\ running = FALSE
    /\ streams = env.streams
    /\ sizePerStream = env.sizePerStream
    /\ uploadSize = env.uploadSize
    /\ pingMs = NULL
    /\ downloadMbps = NULL
    /\ downloadPeakMbps = NULL
    /\ uploadMbps = NULL
    /\ dlChartData = <<>>
    /\ log = <<>>
    /\ controllerRef = NULL
    /\ aborted = {}
    /\ run = [r \in Runs |-> IdleRun]
    /\ nRuns = 0
    /\ hist = [r \in Runs |-> NoHistory]
    /\ now = env.stepMs
    /\ budget = env.budget

Tasks ==
    \/ ClickRun
    \/ ClickAbort
    \/ Advance
    \/ \E r \in Runs :
          \/ PingResolve(r)
          \/ PingReject(r)
          \/ SamplerTick(r)
          \/ UploadResolve(r)
          \/ UploadFail(r)
    \/ \E r \in Runs, i \in StreamIds :
          \/ FetchResolve(r, i)
          \/ FetchReject(r, i)
          \/ ReadChunk(r, i)
          \/ ReadDone(r, i)
          \/ ReadError(r, i)

----------------------------------------------------------------------------
(* Spec: the session orchestrator.  Up to MaxRuns sessions that may overlap  *)
(* (a session is started as soon as running is false), explored for         *)
(* MaxTasks tasks within one clock quantum under a network that answers     *)
(* every request; and one whole session under a running clock and a network *)
(* that answers or fails each request.                                      *)

\* the positions of a session in which the user may press Abort
Stages == {"ping", "download", "upload", "done"}

GoodNetwork ==
    [rtts |-> {104}, probeFail |-> FALSE, fetchOk |-> TRUE, chunkLens |-> {MiB},
     cancelOk |-> {TRUE}, eof |-> FALSE, faults |-> FALSE, uploadOk |-> {TRUE}]

AnyNetwork ==
    [rtts |-> {104}, probeFail |-> TRUE, fetchOk |-> TRUE, chunkLens |-> {MiB},
     cancelOk |-> {TRUE}, eof |-> TRUE, faults |-> TRUE, uploadOk |-> BOOLEAN]

Merge(a, b) == [k \in DOMAIN a \cup DOMAIN b |-> IF k \in DOMAIN a THEN a[k] ELSE b[k]]

OverlapEnvs ==
    {Merge([maxRuns |-> MaxRuns, budget |-> MaxTasks, cancels |-> Stages,
            streams |-> 1, sizePerStream |-> 1, uploadSize |-> KiB,
            stepMs |-> 250, horizon |-> 250], GoodNetwork)}

SessionEnvs ==
    {Merge([maxRuns |-> 1, budget |-> NULL, cancels |-> Stages,
            streams |-> 1, sizePerStream |-> 1, uploadSize |-> KiB,
            stepMs |-> 250,
            horizon |-> 250 * (1 + MaxClockSteps)], AnyNetwork)}

Init ==
    /\ env \in OverlapEnvs \cup SessionEnvs
    /\ InitComponent

Next == Tasks

Spec == Init /\ [][Next]_vars

----------------------------------------------------------------------------
(* SpecDL: the download coordinator.  One session with 1 .. MaxStreams       *)
(* streams under a clock that advances by sampler periods; every probe      *)
(* succeeds, and each stream may fail to open, deliver chunks of half the   *)
(* target or of the whole target, end early, fail in a read or be aborted,  *)
(* in every interleaving with the sampler.                                  *)

DownloadEnvs ==
    {[maxRuns |-> 1, budget |-> NULL, cancels |-> {"download"},
      streams |-> n, sizePerStream |-> 1, uploadSize |-> KiB,
      stepMs |-> sampleIntervalMs,
      horizon |-> sampleIntervalMs * (1 + MaxSamplerPeriods),
      rtts |-> {104}, probeFail |-> FALSE, fetchOk |-> TRUE,
      chunkLens |-> {MiB \div 2, MiB}, cancelOk |-> {TRUE},
      eof |-> TRUE, faults |-> TRUE, uploadOk |-> {TRUE}]
        : n \in 1 .. MaxStreams}

InitDL ==
    /\ env \in DownloadEnvs
    /\ InitComponent

NextDL ==
    \/ ClickRun
    \/ ClickAbort
    \/ Advance
    \/ \E r \in Runs :
          \/ PingResolve(r)
          \/ SamplerTick(r)
          \/ UploadResolve(r)
    \/ \E r \in Runs, i \in StreamIds :
          \/ FetchResolve(r, i)
          \/ FetchReject(r, i)
          \/ ReadChunk(r, i)
          \/ ReadDone(r, i)
          \/ ReadError(r, i)

SpecDL == InitDL /\ [][NextDL]_vars

----------------------------------------------------------------------------
(* SpecPing: the latency prober.  One session whose probes each fail or     *)
(* succeed with any of the round-trip times of ProbeTimes (tenths of a ms), *)
(* up to the return of measurePing.                                         *)

ProbeTimes == {90, 100, 110, 115, 120, 4000}

PingEnvs ==
    {[maxRuns |-> 1, budget |-> NULL, cancels |-> {}, streams |-> 1,
      sizePerStream |-> 1, uploadSize |-> KiB, stepMs |-> 250,
      horizon |-> 250,
      rtts |-> ProbeTimes, probeFail |-> TRUE, fetchOk |-> TRUE,
      chunkLens |-> {MiB}, cancelOk |-> {TRUE},
      eof |-> FALSE, faults |-> FALSE, uploadOk |-> {TRUE}]}

InitPing ==
    /\ env \in PingEnvs
    /\ InitComponent

NextPing ==
    \/ ClickRun
    \/ \E r \in Runs :
          \/ PingResolve(r)
          \/ PingReject(r)

SpecPing == InitPing /\ [][NextPing]_vars

----------------------------------------------------------------------------
(* SpecUpload: measureUpload as a function of its size.  One session under  *)
(* a network that answers every download request and answers or fails the   *)
(* POST, for the sizes of UploadSizes: sizes the slider offers (whole MB)    *)
(* and sizes between them, a whole number of 128 KB chunks or not.          *)

UploadSizes == {1, 64, 128, 129, 300, 512, 1024, 1500, 10 * KiB, 50 * KiB}

UploadEnvs ==
    {Merge([maxRuns |-> 1, budget |-> NULL, cancels |-> {}, streams |-> 1,
            sizePerStream |-> 1, uploadSize |-> s, stepMs |-> 250,
            horizon |-> 250 * (1 + MaxClockSteps)],
           [GoodNetwork EXCEPT !.uploadOk = BOOLEAN])
        : s \in UploadSizes}

InitUpload ==
    /\ env \in UploadEnvs
    /\ InitComponent

NextUpload ==
    \/ ClickRun
    \/ Advance
    \/ \E r \in Runs :
          \/ PingResolve(r)
          \/ SamplerTick(r)
          \/ UploadResolve(r)
          \/ UploadFail(r)
    \/ \E r \in Runs, i \in StreamIds :
          \/ FetchResolve(r, i)
          \/ ReadChunk(r, i)

SpecUpload == InitUpload /\ [][NextUpload]_vars

----------------------------------------------------------------------------
(* SpecChart: the live sample series over a long download.  One session     *)
(* whose single stream opens and then delivers nothing while the clock runs *)
(* for MaxChartTicks sampler periods; the user may abort the download, and  *)
(* the session then goes on to its upload.                                  *)

ChartEnvs ==
    {Merge([maxRuns |-> 1, budget |-> NULL, cancels |-> {"download"},
            streams |-> 1, sizePerStream |-> 1, uploadSize |-> KiB,
            stepMs |-> sampleIntervalMs,
            horizon |-> sampleIntervalMs * (1 + MaxChartTicks)],
           [GoodNetwork EXCEPT !.chunkLens = {}])}

InitChart ==
    /\ env \in ChartEnvs
    /\ InitComponent

NextChart ==
    \/ ClickRun
    \/ ClickAbort
    \/ Advance
    \/ \E r \in Runs :
          \/ PingResolve(r)
          \/ SamplerTick(r)
          \/ UploadResolve(r)
    \/ \E r \in Runs, i \in StreamIds : FetchResolve(r, i)

SpecChart == InitChart /\ [][NextChart]_vars

----------------------------------------------------------------------------
(* SpecDefaults: the download of a session under the default settings,      *)
(* DEFAULT_STREAMS streams of DEFAULT_SIZE_MB_PER_STREAM MB each.  Every     *)
(* stream opens and delivers its target, at any of the sampler periods of   *)
(* the ScenarioMs milliseconds that follow the launch.                      *)

DEFAULT_STREAMS == 4
DEFAULT_SIZE_MB_PER_STREAM == 10
ScenarioMs == 2000

DefaultsEnvs ==
    {Merge([maxRuns |-> 1, budget |-> NULL, cancels |-> {},
            streams |-> DEFAULT_STREAMS,
            sizePerStream |-> DEFAULT_SIZE_MB_PER_STREAM,
            uploadSize |-> 10 * KiB, stepMs |-> sampleIntervalMs,
            horizon |-> sampleIntervalMs + ScenarioMs],
           [GoodNetwork EXCEPT
               !.chunkLens = {DEFAULT_SIZE_MB_PER_STREAM * MiB}])}

InitDefaults ==
    /\ env \in DefaultsEnvs
    /\ InitComponent

NextDefaults ==
    \/ ClickRun
    \/ Advance
    \/ \E r \in Runs :
          \/ PingResolve(r)
          \/ SamplerTick(r)
    \/ \E r \in Runs, i \in StreamIds :
          \/ FetchResolve(r, i)
          \/ ReadChunk(r, i)

SpecDefaults == InitDefaults /\ [][NextDefaults]_vars

----------------------------------------------------------------------------
(* SpecStream: the read loop of makeStream.  One session with                *)
(* 1 .. MaxStreams streams within one clock quantum; each stream may fail   *)
(* to open, deliver chunks of a half or of three quarters of the target,    *)
(* end early, fail in a read or be aborted, and reader.cancel() may throw.  *)

StreamEnvs ==
    {[maxRuns |-> 1, budget |-> NULL, cancels |-> {"download"},
      streams |-> n, sizePerStream |-> 1, uploadSize |-> KiB,
      stepMs |-> 250, horizon |-> 250,
      rtts |-> {104}, probeFail |-> FALSE, fetchOk |-> TRUE,
      chunkLens |-> {MiB \div 2, 3 * (MiB \div 4)}, cancelOk |-> BOOLEAN,
      eof |-> TRUE, faults |-> TRUE, uploadOk |-> {TRUE}]
        : n \in 1 .. MaxStreams}

InitStream ==
    /\ env \in StreamEnvs
    /\ InitComponent

NextStream ==
    \/ ClickRun
    \/ ClickAbort
    \/ \E r \in Runs : PingResolve(r)
    \/ \E r \in Runs, i \in StreamIds :
          \/ FetchResolve(r, i)
          \/ FetchReject(r, i)
          \/ ReadChunk(r, i)
          \/ ReadDone(r, i)
          \/ ReadError(r, i)

SpecStream == InitStream /\ [][NextStream]_vars

----------------------------------------------------------------------------
(* SpecLive: settlement.  One session, cancelled at any point or not, under *)
(* the environments of SessionEnvs and of StreamEnvs, where every request   *)
(* that is in flight is eventually answered or failed: weak fairness of the *)
(* settlement of the probes, the opens, the reads and the POST.  Clicks,    *)
(* the clock and the timer are not assumed to happen.                       *)

InitLive ==
    /\ env \in SessionEnvs \cup StreamEnvs
    /\ InitComponent

\* some request that is in flight is answered or failed
Response ==
    \/ \E r \in Runs :
          \/ PingResolve(r)
          \/ PingReject(r)
          \/ UploadResolve(r)
          \/ UploadFail(r)
    \/ \E r \in Runs, i \in StreamIds :
          \/ FetchResolve(r, i)
          \/ FetchReject(r, i)
          \/ ReadChunk(r, i)
          \/ ReadDone(r, i)
          \/ ReadError(r, i)

\* ENABLED <<Response>>_vars as a state predicate: a probe, an open or a read
\* of a stream, or the POST is in flight
Pending ==
    \E r \in Runs :
        \/ run[r].pc \in {"ping", "upload"}
        \/ \E i \in 1 .. Len(run[r].st) : run[r].st[i] \in {"fetch", "read"}

\* <<Response>>_vars by its effect: without a click, a probe was counted, a
\* stream changed its position or its byte counter, or a stage was left
ResponseStep ==
    /\ nRuns' = nRuns
    /\ \A r \in Runs : hist'[r].cancelled = hist[r].cancelled
    /\ \E r \in Runs :
          \/ run'[r].i # run[r].i
          \/ run'[r].st # run[r].st
          \/ run'[r].streamStates # run[r].streamStates
          \/ run'[r].pc # run[r].pc

\* WF_vars(Response)
NetworkResponds == []<>(~Pending) \/ []<><<ResponseStep>>_vars

SpecLive == InitLive /\ [][Next]_vars /\ NetworkResponds

----------------------------------------------------------------------------
(* SpecTokens: the shared controllerRef.  Up to MaxRuns sessions that may    *)
(* overlap after a cancel request during a transfer, explored for           *)
(* MaxTokenTasks tasks within one clock quantum under a network that        *)
(* answers every request.                                                   *)

TokenEnvs ==
    {Merge([maxRuns |-> MaxRuns, budget |-> MaxTokenTasks,
            cancels |-> {"download", "upload"}, streams |-> n,
            sizePerStream |-> 1, uploadSize |-> KiB, stepMs |-> 250,
            horizon |-> 250],
           GoodNetwork) : n \in 1 .. MaxStreams}

InitTokens ==
    /\ env \in TokenEnvs
    /\ InitComponent

NextTokens ==
    \/ ClickRun
    \/ ClickAbort
    \/ \E r \in Runs :
          \/ PingResolve(r)
          \/ UploadResolve(r)
    \/ \E r \in Runs, i \in StreamIds :
          \/ FetchResolve(r, i)
          \/ ReadChunk(r, i)

SpecTokens == InitTokens /\ [][NextTokens]_vars

----------------------------------------------------------------------------
(* Claims about the session orchestrator *)

DownloadInFlight(r) ==
    /\ run[r].pc = "download"
    /\ \E i \in 1 .. Len(run[r].st) : ~Settled(run[r].st[i])

\* C1: once a cancel request is accepted in a session, the session stays in the
\* stage it was cancelled in: it starts no further stage (a cancel during the
\* download is not followed by the upload), publishes no later stage result
\* and does not reach the end of the run with its 'test finished' line.
C1_CancelEndsSession ==
    \A r \in Runs : hist[r].cancelled => run[r].pc = hist[r].stage

\* C2: in no reachable state is a download stream in flight while an upload
\* transfer is in flight.
C2_DownloadUploadExclusive ==
    ~ \E r1 \in Runs, r2 \in Runs : DownloadInFlight(r1) /\ run[r2].pc = "upload"

\* C3: in a session that no cancel request was accepted in, the stages run in
\* the order probe, download, upload: the download is launched only after all
\* PING_TRIES probes settled and the ping (a value or absent) was recorded, the
\* upload begins only after every stream settled, the sampler stopped and the
\* download result (a value or absent) was recorded, and the session ends only
\* after all three, whatever was absent, with one 'test finished' line.
C3_StagesInOrder ==
    \A r \in Runs :
        ~hist[r].cancelled =>
            LET rec == run[r]
            IN  /\ rec.pc \in {"idle", "ping"} =>
                      /\ rec.i < PING_TRIES
                      /\ rec.st = <<>>
                      /\ rec.dlResult = NoResult
                      /\ rec.ul = NULL
                /\ rec.pc \in {"download", "upload", "done"} =>
                      /\ rec.i = PING_TRIES
                      /\ rec.ping = PingReturn(rec.results)
                      /\ Len(rec.st) = streams
                /\ rec.pc = "download" =>
                      /\ ~AllSettled(rec)
                      /\ rec.dlResult = NoResult
                      /\ rec.ul = NULL
                /\ rec.pc \in {"upload", "done"} =>
                      /\ AllSettled(rec)
                      /\ ~rec.sampler
                      /\ rec.dlResult.totalBytes \in {NULL, SumBytes(rec.streamStates)}
                /\ rec.pc = "upload" => rec.ul = NULL
                /\ hist[r].terminals = IF rec.pc = "done" THEN 1 ELSE 0

\* C3, its case: a session without a cancel request has ended although its
\* probe, its download and its upload all came out absent
C3_Witness ==
    \E r \in Runs :
        /\ ~hist[r].cancelled
        /\ run[r].pc = "done"
        /\ run[r].ping = NULL
        /\ run[r].dlResult = NoResult
        /\ run[r].ul = NULL
        /\ Len(run[r].st) = streams

\* C4: a cancel request accepted in any stage fires a fresh token of its
\* session, and when it is accepted during the probe stage the prober issues
\* no probe after it.
C4_CancelStopsProber ==
    \A r \in Runs :
        hist[r].cancelled =>
            /\ hist[r].fired
            /\ hist[r].stage = "ping" => Issued(run[r]) = hist[r].issued

----------------------------------------------------------------------------
(* Claims about the download coordinator *)

Failed(s) == s \in {"errored", "rejected"}

DownloadOver(rec) == rec.pc \in {"upload", "done"}

\* the bytes of the streams of rec whose status satisfies Keep
RECURSIVE BytesWhere(_, _, _)
BytesWhere(rec, Keep(_), i) ==
    IF i > Len(rec.st) THEN 0
    ELSE (IF Keep(rec.st[i]) THEN rec.streamStates[i].bytes ELSE 0)
         + BytesWhere(rec, Keep, i + 1)

NotFailed(s) == ~Failed(s)
AnyStatus(s) == TRUE

\* the wall-clock time from the earliest opened stream to the settlement
Opened(rec) == {i \in 1 .. Len(rec.st) : rec.streamStates[i].start # NULL}

ElapsedMs(rec) ==
    LET first == CHOOSE i \in Opened(rec) :
                    \A j \in Opened(rec) :
                        rec.streamStates[i].start <= rec.streamStates[j].start
    IN  rec.dlEnd - rec.streamStates[first].start

\* the case of C7: the download of a session without a cancel request has
\* settled, some stream failed, and a stream that did not fail opened and
\* delivered bytes
PartialFailure(r) ==
    LET rec == run[r]
    IN  /\ ~hist[r].cancelled
        /\ DownloadOver(rec)
        /\ \E i \in 1 .. Len(rec.st) : Failed(rec.st[i])
        /\ \E i \in 1 .. Len(rec.st) :
              /\ ~Failed(rec.st[i])
              /\ rec.streamStates[i].start # NULL
              /\ rec.streamStates[i].bytes > 0

\* C7 as stated (read with a clock that shows a positive elapsed time): under
\* a partial failure the coordinator returns a result, and its average is the
\* bytes of the streams that did not fail over the wall-clock time since the
\* earliest started stream.
C7_SurvivorsAverage ==
    \A r \in Runs :
        PartialFailure(r) /\ ElapsedMs(run[r]) > 0 =>
            /\ run[r].dlResult # NoResult
            /\ run[r].dlResult.avgMbps =
                  Mbps100(BytesWhere(run[r], NotFailed, 1), ElapsedMs(run[r]))

\* C7 as amended: under a partial failure the coordinator returns a result
\* exactly when the clock shows a positive time since the earliest opened
\* stream (and absent when it shows none); the average is the bytes of all
\* streams over that time, where a stream that failed before it opened has no
\* start time and no bytes and a stream that failed in a later read counts
\* with the bytes it delivered.
C7_PartialFailureAverage ==
    \A r \in Runs :
        PartialFailure(r) =>
            LET rec == run[r]
            IN  /\ \A i \in 1 .. Len(rec.st) :
                      rec.st[i] = "rejected" =>
                          /\ rec.streamStates[i].start = NULL
                          /\ rec.streamStates[i].bytes = 0
                /\ IF ElapsedMs(rec) > 0
                   THEN /\ rec.dlResult # NoResult
                        /\ rec.dlResult.avgMbps =
                              Mbps100(BytesWhere(rec, AnyStatus, 1), ElapsedMs(rec))
                   ELSE rec.dlResult = NoResult

\* C7, its case: one stream failed before it opened, another reached its
\* target, and the coordinator returned a result
C7_Witness ==
    \E r \in Runs :
        /\ PartialFailure(r)
        /\ run[r].dlResult # NoResult
        /\ \E i \in 1 .. Len(run[r].st) : run[r].st[i] = "rejected"
        /\ \E i \in 1 .. Len(run[r].st) :
              /\ run[r].st[i] = "completed"
              /\ run[r].streamStates[i].bytes >= sizePerStream * MiB

\* C8: a reported totalBytes was computed after every stream reached a
\* terminal status and equals the sum of the streams' byte counters, which
\* therefore no stream increments after the aggregation.
C8_TotalAfterAllSettled ==
    \A r \in Runs :
        run[r].dlResult # NoResult =>
            /\ DownloadOver(run[r])
            /\ \A i \in 1 .. Len(run[r].st) : Settled(run[r].st[i])
            /\ run[r].dlResult.totalBytes = BytesWhere(run[r], AnyStatus, 1)

\* C8, its case: two streams ended with different positive byte counts and
\* the coordinator reported their total
C8_Witness ==
    \E r \in Runs :
        /\ run[r].dlResult # NoResult
        /\ \E i, j \in 1 .. Len(run[r].st) :
              /\ run[r].streamStates[i].bytes > run[r].streamStates[j].bytes
              /\ run[r].streamStates[j].bytes > 0

\* C9: every result of a download has peakMbps >= avgMbps, and the two are
\* equal when no sample was recorded.
C9_PeakAtLeastAverage ==
    \A r \in Runs :
        run[r].dlResult # NoResult =>
            /\ run[r].dlResult.peakMbps >= run[r].dlResult.avgMbps
            /\ run[r].samples = <<>> =>
                  run[r].dlResult.peakMbps = run[r].dlResult.avgMbps

----------------------------------------------------------------------------
(* Claims about the latency prober *)

\* the statistical median of a sorted list of times (tenths of a ms), rounded
\* to the nearest millisecond: the middle time of an odd number, the midpoint
\* of the two middle times of an even number
MedianMs(sorted) ==
    LET k == Len(sorted)
    IN  IF k % 2 = 1 THEN (sorted[(k + 1) \div 2] + 5) \div 10
        ELSE (sorted[k \div 2] + sorted[(k \div 2) + 1] + 10) \div 20

\* C10: for every number k >= 1 of successful probes, odd or even, the prober
\* returns the statistical median of the successful times, rounded to the
\* nearest millisecond.
C10_PingIsMedian ==
    \A r \in Runs :
        (run[r].i = PING_TRIES /\ Len(run[r].results) >= 1) =>
            run[r].ping = MedianMs(Sort(run[r].results))

RECURSIVE Reverse(_)
Reverse(s) == IF s = <<>> THEN <<>> ELSE Append(Reverse(Tail(s)), Head(s))

IsPingLine(e) == e.kind \in {"Ping ms", "Ping failed"}
IsPingOk(e) == e.kind = "Ping ms"

\* the log lines of the prober, oldest first
PingLines == Reverse(SelectSeq(log, IsPingLine))

\* C11: whatever attempts fail, the prober issues its probes one after another
\* up to exactly PING_TRIES, logs exactly one line per settled attempt in
\* attempt order, keeps exactly the successful times in its result set, and
\* returns absent exactly when no attempt succeeded.
C11_ProberNeverStops ==
    \A r \in Runs :
        run[r].pc # "idle" =>
            LET rec == run[r]
                oks == SelectSeq(PingLines, IsPingOk)
            IN  /\ Len(PingLines) = rec.i
                /\ \A k \in 1 .. Len(PingLines) : PingLines[k].a = k
                /\ Len(oks) = Len(rec.results)
                /\ \A j \in 1 .. Len(oks) : oks[j].b = MathRound(rec.results[j])
                /\ Issued(rec) <= PING_TRIES
                /\ rec.pc = "ping" => rec.i < PING_TRIES
                /\ rec.pc # "ping" =>
                      /\ rec.i = PING_TRIES
                      /\ (rec.ping = NULL) <=> (Len(rec.results) = 0)

\* C11, its case: the prober has returned a value although its first attempt
\* and a later attempt failed
C11_Witness ==
    \E r \in Runs :
        /\ run[r].i = PING_TRIES
        /\ run[r].ping # NULL
        /\ Len(run[r].results) = PING_TRIES - 2
        /\ PingLines[1].kind = "Ping failed"
        /\ PingLines[PING_TRIES].kind = "Ping failed"

----------------------------------------------------------------------------
(* Claims about the upload coordinator *)

----------------------------------------------------------------------------
(* Claims about the sampler *)

\* C13: in every reachable state the sample series kept for display holds at
\* most CHART_KEEP (60) entries, and they are the most recent samples in the
\* order of their emission.
C13_ChartAtMost60 ==
    /\ Len(dlChartData) <= CHART_KEEP
    /\ \A k \in 1 .. Len(dlChartData) - 1 :
          dlChartData[k].name < dlChartData[k + 1].name
    /\ \A r \in Runs :
          (run[r].sampler /\ dlChartData # <<>>) =>
              dlChartData[Len(dlChartData)].name = run[r].lastSampleTime

\* bytes * 8 / (ms / 1000) / 1,000,000 to two decimals, in hundredths:
\* 8 * bytes / (10 * ms) rounded half up
DecimalMbps100(bytes, ms) == (8 * bytes + 5 * ms) \div (10 * ms)

\* C14: when DEFAULT_STREAMS streams have each delivered 10,485,760 bytes and
\* ScenarioMs (2.0 s) of wall-clock time lie between the first stream's start
\* and the settlement, the reported average is totalBytes * 8 / seconds /
\* 1,000,000 to two decimals, 167.77.
C14_ScenarioAverage ==
    \A r \in Runs :
        LET rec == run[r]
        IN  (/\ DownloadOver(rec)
             /\ Len(rec.st) = DEFAULT_STREAMS
             /\ \A i \in 1 .. Len(rec.st) :
                   rec.streamStates[i].bytes = DEFAULT_SIZE_MB_PER_STREAM * MiB
             /\ ElapsedMs(rec) = ScenarioMs)
            => /\ rec.dlResult # NoResult
               /\ rec.dlResult.avgMbps =
                     DecimalMbps100(SumBytes(rec.streamStates), ScenarioMs)
               /\ rec.dlResult.avgMbps = 16777

\* the cumulative byte total of the latest sample: the byte deltas added up
RECURSIVE CumulativeBytes(_)
CumulativeBytes(samples) ==
    IF samples = <<>> THEN 0 ELSE Head(samples)[1] + CumulativeBytes(Tail(samples))

\* C15: within a download stage the set of streams is fixed, no step lowers a
\* stream's byte counter, a counter is raised only by the read of its own
\* stream (one counter per step, of a stream that awaited a read), and every
\* sampler tick records a cumulative total that is the sum of all counters at
\* the tick and is not below the cumulative total of the sample before it.
C15_CountersAndSamples ==
    [][\A r \in Runs :
          LET rec == run[r]
              nxt == run'[r]
              n == Len(rec.streamStates)
          IN  /\ rec.pc \in {"download", "upload", "done"} =>
                    /\ Len(nxt.streamStates) = n
                    /\ \A i \in 1 .. n :
                          /\ nxt.streamStates[i].bytes >= rec.streamStates[i].bytes
                          /\ nxt.streamStates[i].bytes # rec.streamStates[i].bytes =>
                                /\ rec.st[i] = "read"
                                /\ \A j \in (1 .. n) \ {i} :
                                      nxt.streamStates[j] = rec.streamStates[j]
                    /\ Len(nxt.samples) \in {Len(rec.samples), Len(rec.samples) + 1}
              /\ Len(nxt.samples) = Len(rec.samples) + 1 =>
                    /\ nxt.streamStates = rec.streamStates
                    /\ CumulativeBytes(nxt.samples) = BytesWhere(rec, AnyStatus, 1)
                    /\ CumulativeBytes(nxt.samples) >= CumulativeBytes(rec.samples)
                    /\ nxt.lastSampleBytes = CumulativeBytes(nxt.samples)]_vars

\* C15, its case: three ticks have sampled a download whose streams delivered
\* bytes before the first tick, none between the first and the second, and
\* more before the third, while a stream still awaits a read
C15_Witness ==
    \E r \in Runs :
        /\ Len(run[r].samples) = 3
        /\ run[r].samples[1][1] > 0
        /\ run[r].samples[2][1] = 0
        /\ run[r].samples[3][1] > 0
        /\ \E i \in 1 .. Len(run[r].st) : run[r].st[i] = "read"

----------------------------------------------------------------------------
(* Claims about the stream transfer unit *)

\* C16: a stream whose counter has reached its target awaits no further read
\* and its counter is raised no more: a counter is raised only from below the
\* target, so that it ends below the target plus the chunk that was read last;
\* the stream that reaches its target is completed, also when reader.cancel()
\* threw.
C16_StopsAtTarget ==
    [][\A r \in Runs :
          LET rec == run[r]
              nxt == run'[r]
              target == sizePerStream * MiB
          IN  \A i \in 1 .. Len(rec.st) :
                  LET before == rec.streamStates[i].bytes
                      after == nxt.streamStates[i].bytes
                  IN  /\ rec.st[i] \in {"fetch", "read"} => before < target
                      /\ after # before =>
                            /\ before < target
                            /\ rec.st[i] = "read"
                            /\ after < target + (after - before)
                      /\ after >= target => nxt.st[i] = "completed"
                      /\ i \in nxt.cancelFailed =>
                            /\ nxt.st[i] = "completed"
                            /\ after >= target
                      /\ Settled(rec.st[i]) =>
                            /\ nxt.st[i] = rec.st[i]
                            /\ after = before]_vars

\* C16, its case: a stream ran past its target with its last chunk, its
\* reader.cancel() threw, and the stream is completed
C16_Witness ==
    \E r \in Runs :
        \E i \in 1 .. Len(run[r].st) :
            /\ run[r].streamStates[i].bytes > sizePerStream * MiB
            /\ i \in run[r].cancelFailed
            /\ run[r].st[i] = "completed"

----------------------------------------------------------------------------
(* Claims about settlement *)

\* C17: when every request is eventually answered or failed, every started
\* session, wherever a cancel request reaches it, eventually is at its end
\* with the running flag cleared, every download stream in a terminal status
\* and the sampler stopped.
C17_SessionSettles ==
    \A r \in Runs :
        (run[r].pc # "idle") ~>
            (/\ run[r].pc = "done"
             /\ ~running
             /\ Len(run[r].st) = streams
             /\ AllSettled(run[r])
             /\ ~run[r].sampler)

\* C17, its case: a session that was cancelled while a stream was blocked on a
\* read has reached its end, the stream aborted and the running flag cleared
C17_Witness ==
    \E r \in Runs :
        /\ hist[r].cancelled
        /\ hist[r].stage = "download"
        /\ run[r].pc = "done"
        /\ ~running
        /\ \E i \in 1 .. Len(run[r].st) : run[r].st[i] = "aborted"

\* the two definitions by which NetworkResponds spells out WF_vars(Response)
\* agree with the action they stand for
PendingIsEnabled == Pending <=> ENABLED <<Response>>_vars

StepIsResponse == [][ResponseStep <=> Response]_vars

\* the lines of the log that report a failure of stream i
IsErrorLineOf(i, e) == e.kind = "Stream error" /\ e.a = i

ErrorLines(l, i) == Cardinality({k \in 1 .. Len(l) : IsErrorLineOf(i, l[k])})

\* C18: a step in which a stream ends by a transport failure, of its open or
\* of a later read, adds a log line for that stream and leaves the stream
\* errored, and leaves the status and the byte counter of every other stream
\* as they were.
C18_FailureLogged ==
    [][\A r \in Runs :
          \A i \in 1 .. Len(run[r].st) :
              (/\ hist' = hist
               /\ ~Failed(run[r].st[i])
               /\ Failed(run'[r].st[i]))
              => /\ run'[r].st[i] = "errored"
                 /\ ErrorLines(log', i) = ErrorLines(log, i) + 1
                 /\ \A j \in (1 .. Len(run[r].st)) \ {i} :
                       /\ run'[r].st[j] = run[r].st[j]
                       /\ run'[r].streamStates[j] = run[r].streamStates[j]]_vars

----------------------------------------------------------------------------
(* Claims about the cancellation token *)

\* run c ends in this step (its finally block runs)
Ends(c) == run[c].pc # "done" /\ run'[c].pc = "done"

\* a cancel request is accepted in this step
CancelAccepted == \E x \in Runs : hist'[x].cancelled /\ ~hist[x].cancelled

\* C19: the token of a run is fired only in a step that accepts a cancel
\* request or in which that run itself ends, and while the download streams
\* of a run are in flight the reference to its token is cleared by no other
\* run's end.
C19_TokenFiredByOwner ==
    [][\A c \in Runs :
          /\ (c \in aborted' /\ c \notin aborted) =>
                \/ CancelAccepted
                \/ Ends(c)
          /\ (controllerRef = c /\ controllerRef' = NULL /\ DownloadInFlight(c)) =>
                Ends(c)]_vars

----------------------------------------------------------------------------
(* Claims about the running flag *)

\* C20: whenever a probe attempt, a download stream or an upload transfer of
\* some session is still in flight, the running flag is true.
C20_RunningWhileInFlight ==
    (\E r \in Runs : Active(r)) => running

====
